---- MODULE Spec2Model ----
(***************************************************************************)
(* Model of AuthService (src/src/app/services/auth.service.ts): a session  *)
(* manager over an HTTP client, the browser's localStorage and two         *)
(* BehaviorSubjects.                                                       *)
(*                                                                         *)
(* Conventions.  A JavaScript value that may be null/undefined is a        *)
(* sequence of length at most one: <<>> is null/undefined, <<v>> is v.     *)
(* Strings are TLA+ strings; "" is the empty (falsy) string.               *)
(***************************************************************************)
EXTENDS Integers, Sequences, FiniteSets, TLC

\* ------------------------------------------------------------------ bounds
MaxReq == 2      \* request slots that may be in flight at once
MaxSubs == 1     \* subscribers each stream may have at once
MaxErrs == 2     \* longest field-error array a failure response carries

\* ------------------------------------------------------------ input domains
Null == <<>>
Some(v) == <<v>>

Tokens == {"", "t1"}
Names == {"Ann"}
Emails == {"ann@x.io"}
Roles == {"admin", ""}

\* interface User (lines 7-11)
User == [name : Names, email : Emails, role : Roles]

\* interface AuthResponse (lines 13-16)
AuthResponse == [token : Tokens, user : User]

Msgs == {"A", "B"}
\* one element of error.error.errors: an object whose msg may be missing
FieldError == [msg : {Null} \cup {Some(m) : m \in Msgs}]

RECURSIVE SeqsUpTo(_, _)
SeqsUpTo(S, n) ==
    IF n = 0 THEN {<<>>}
    ELSE LET shorter == SeqsUpTo(S, n - 1)
         IN  shorter \cup {Append(q, x) : q \in {r \in shorter : Len(r) = n - 1}, x \in S}

\* error.error.errors: absent, something that is not an array, or an array
ErrorsField ==
    {[kind |-> "absent", items |-> <<>>], [kind |-> "object", items |-> <<>>]}
    \cup {[kind |-> "array", items |-> a] : a \in SeqsUpTo(FieldError, MaxErrs)}

\* the failures the session machine is driven with: one per branch of
\* handleError, and the combinations that decide the order of the branches
FailureSample ==
    {[msg |-> Some("Email taken"), errors |-> [kind |-> "array", items |-> <<[msg |-> Some("A")]>>], status |-> 0],
     [msg |-> Some(""), errors |-> [kind |-> "absent", items |-> <<>>], status |-> 401],
     [msg |-> Null, errors |-> [kind |-> "array", items |-> <<[msg |-> Some("A")], [msg |-> Some("B")]>>], status |-> 0],
     [msg |-> Null, errors |-> [kind |-> "absent", items |-> <<>>], status |-> 0],
     [msg |-> Null, errors |-> [kind |-> "object", items |-> <<>>], status |-> 401]}

\* the failure passed to catchError: error.error.msg, error.error.errors, error.status
HttpError ==
    [msg : {Null, Some(""), Some("Email taken")},
     errors : ErrorsField,
     status : {0, 401}]

\* ------------------------------------------------------------------- state
VARIABLES
    localStorage,        \* [Keys -> optional string]; <<>> = key absent
    authStatusSubject,   \* BehaviorSubject<boolean>: its current value
    currentUserSubject,  \* BehaviorSubject<User | null>: its current value
    authSubs,            \* subscribers of authStatus$
    userSubs,            \* subscribers of user$
    authSeen,            \* the delivery on authStatus$ made by the latest session
                         \* operation or subscription, if it made one
    userSeen,            \* the same for user$
    requests,            \* [1..MaxReq -> "idle" | "login" | "register"]: the requests
                         \* in flight, oldest first, then "idle"
    outcome,             \* what the caller of login/register received last
    lastOp,              \* the last operation that wrote the session (history)
    constructed,         \* the subjects' initial values at construction and the
                         \* last operation of the instance before it, kept
                         \* until the first broadcast replaces them (history)
    crossed              \* when the latest session operation was a logout or the
                         \* saveSession of a response: the requests in flight that
                         \* were issued before it began (history)

vars == <<localStorage, authStatusSubject, currentUserSubject, authSubs, userSubs,
          authSeen, userSeen, requests, outcome, lastOp, constructed, crossed>>

Keys == {"auth-token", "user"}
Subscribers == 1..MaxSubs

\* JavaScript truthiness of a string | null
Truthy(o) == o /= Null /\ o[1] /= ""

\* --------------------------------------------------------------- JSON text
JSONstringify(u) ==
    "{\"name\":\"" \o u.name \o "\",\"email\":\"" \o u.email
        \o "\",\"role\":\"" \o u.role \o "\"}"

\* positions of the double quotes of s, in order
RECURSIVE QuotesFrom(_, _)
QuotesFrom(s, i) ==
    IF i > Len(s) THEN <<>>
    ELSE IF SubSeq(s, i, i) = "\"" THEN <<i>> \o QuotesFrom(s, i + 1)
    ELSE QuotesFrom(s, i + 1)

\* JSON.parse of the text of a flat object with three string members
JSONparse(s) ==
    LET q == QuotesFrom(s, 1)
        str(k) == SubSeq(s, q[k] + 1, q[k + 1] - 1)
    IN  [name |-> str(3), email |-> str(7), role |-> str(11)]

\* ------------------------------------------------------------ localStorage
getItem(s, k) == s.localStorage[k]
setItem(s, k, v) == [s EXCEPT !.localStorage[k] = Some(v)]
removeItem(s, k) == [s EXCEPT !.localStorage[k] = Null]

\* ------------------------------------------------------- service accessors
\* The service state s is a record of the variables above.
getToken(s) == getItem(s, "auth-token")

getUser(s) == s.currentUserSubject

getUserRole(s) ==
    IF getUser(s) /= Null /\ getUser(s)[1].role /= ""
    THEN Some(getUser(s)[1].role) ELSE Null

hasToken(s) == Truthy(getItem(s, "auth-token"))

isAuthenticated(s) == hasToken(s)

getStoredUser(s) ==
    LET raw == getItem(s, "user")
    IN  IF Truthy(raw) THEN Some(JSONparse(raw[1])) ELSE Null

\* ------------------------------------------------------- BehaviorSubjects
\* What a subscriber being notified can see of the service at that moment.
Snapshot(s, v, cause) ==
    [cause |-> cause, value |-> v, op |-> s.op,
     token |-> getToken(s), storedUser |-> getItem(s, "user"),
     user |-> getUser(s), authed |-> isAuthenticated(s)]

\* authStatusSubject.next(v): store the value, then notify the subscribers
authStatusNext(s, v) ==
    LET t == [s EXCEPT !.authStatusSubject = v]
    IN  IF t.authSubs /= {}
        THEN [t EXCEPT !.authSeen = Snapshot(t, v, "next")]
        ELSE t

\* currentUserSubject.next(v)
currentUserNext(s, v) ==
    LET t == [s EXCEPT !.currentUserSubject = v]
    IN  IF t.userSubs /= {}
        THEN [t EXCEPT !.userSeen = Snapshot(t, v, "next")]
        ELSE t

\* ------------------------------------------------------ session operations
\* variant: the user is persisted but never broadcast
saveSession_noUserNext(s, response) ==
    LET s1 == setItem(s, "auth-token", response.token)
        s2 == setItem(s1, "user", JSONstringify(response.user))
    IN  authStatusNext(s2, TRUE)

\* variant: the subjects are notified before the store is written
saveSession_notifyFirst(s, response) ==
    LET s1 == authStatusNext(s, TRUE)
        s2 == currentUserNext(s1, Some(response.user))
        s3 == setItem(s2, "auth-token", response.token)
    IN  setItem(s3, "user", JSONstringify(response.user))

\* variant: the user stream is notified before the authenticated stream
saveSession_userFirst(s, response) ==
    LET s1 == setItem(s, "auth-token", response.token)
        s2 == setItem(s1, "user", JSONstringify(response.user))
        s3 == currentUserNext(s2, Some(response.user))
    IN  authStatusNext(s3, TRUE)

saveSession(s, response) ==
    LET s1 == setItem(s, "auth-token", response.token)
        s2 == setItem(s1, "user", JSONstringify(response.user))
        s3 == authStatusNext(s2, TRUE)
    IN  currentUserNext(s3, Some(response.user))

\* variant: the token is left in the store
logout_keepToken(s) ==
    LET s2 == removeItem(s, "user")
        s3 == authStatusNext(s2, FALSE)
    IN  currentUserNext(s3, Null)

\* variant: the user is left in the store
logout_keepUser(s) ==
    LET s1 == removeItem(s, "auth-token")
        s3 == authStatusNext(s1, FALSE)
    IN  currentUserNext(s3, Null)

\* variant: the user stream is not told
logout_noUserNext(s) ==
    LET s1 == removeItem(s, "auth-token")
        s2 == removeItem(s1, "user")
    IN  authStatusNext(s2, FALSE)

logout(s) ==
    LET s1 == removeItem(s, "auth-token")
        s2 == removeItem(s1, "user")
        s3 == authStatusNext(s2, FALSE)
    IN  currentUserNext(s3, Null)

\* -------------------------------------------------------------- handleError
\* errors.map(e => e.msg).join(', '): a missing msg joins as the empty string
\* variant: joined with "," instead of ", "
RECURSIVE Join_noSpace(_)
Join_noSpace(items) ==
    IF items = <<>> THEN ""
    ELSE LET h == IF Head(items).msg = Null THEN "" ELSE Head(items).msg[1]
         IN  IF Len(items) = 1 THEN h ELSE h \o "," \o Join_noSpace(Tail(items))

RECURSIVE Join(_)
Join(items) ==
    IF items = <<>> THEN ""
    ELSE LET h == IF Head(items).msg = Null THEN "" ELSE Head(items).msg[1]
         IN  IF Len(items) = 1 THEN h ELSE h \o ", " \o Join(Tail(items))

DefaultMessage == "Something went wrong. Please try again later."
ConnectMessage ==
    "Unable to connect to the server. Check your internet connection or CORS policy."

\* variant: the field-error array is looked at before the message field
handleError_arrayFirst(error) ==
    IF error.errors.kind = "array" THEN Join(error.errors.items)
    ELSE IF Truthy(error.msg) THEN error.msg[1]
    ELSE IF error.status = 0 THEN ConnectMessage
    ELSE DefaultMessage

\* variant: the status is never looked at
handleError_noConnect(error) ==
    IF Truthy(error.msg) THEN error.msg[1]
    ELSE IF error.errors.kind = "array" THEN Join(error.errors.items)
    ELSE DefaultMessage

handleError(error) ==
    IF Truthy(error.msg) THEN error.msg[1]
    ELSE IF error.errors.kind = "array" THEN Join(error.errors.items)
    ELSE IF error.status = 0 THEN ConnectMessage
    ELSE DefaultMessage

\* ------------------------------------------------------------------ frame
Svc ==
    [localStorage |-> localStorage, authStatusSubject |-> authStatusSubject,
     currentUserSubject |-> currentUserSubject, authSubs |-> authSubs,
     userSubs |-> userSubs, authSeen |-> authSeen, userSeen |-> userSeen,
     op |-> lastOp]


Install(s) ==
    /\ localStorage' = s.localStorage
    /\ authStatusSubject' = s.authStatusSubject
    /\ currentUserSubject' = s.currentUserSubject
    /\ authSubs' = s.authSubs
    /\ userSubs' = s.userSubs
    /\ authSeen' = s.authSeen
    /\ userSeen' = s.userSeen
    /\ lastOp' = s.op

NotSeen(v) ==
    [cause |-> "none", value |-> v, op |-> [name |-> "construct", res |-> Null],
     token |-> Null, storedUser |-> Null, user |-> Null, authed |-> FALSE]

\* a session operation starts: nothing has been delivered by it yet
Begin(name, res) ==
    [Svc EXCEPT !.op = [name |-> name, res |-> res],
                !.authSeen = NotSeen(FALSE), !.userSeen = NotSeen(Null)]

\* the initial values are no longer the subjects' values
Replaced == [auth |-> FALSE, user |-> Null, after |-> [name |-> "construct", res |-> Null]]

NoOutcome ==
    [kind |-> "none", res |-> Null, error |-> Null, message |-> "", crossed |-> "none"]

\* the requests in flight once the i-th oldest has completed
Completed(i) ==
    [j \in 1..MaxReq |-> IF j < i THEN requests[j]
                         ELSE IF j < MaxReq THEN requests[j + 1] ELSE "idle"]

\* the positions slots once the i-th oldest request has completed
Shifted(slots, i) == {j \in slots : j < i} \cup {j - 1 : j \in {k \in slots : k > i}}

NoCrossing == [by |-> "none", slots |-> {}]
Crossing(by, slots) == IF slots = {} THEN NoCrossing ELSE [by |-> by, slots |-> slots]
InFlight == {i \in 1..MaxReq : requests[i] /= "idle"}

\* field initializers (lines 24-25) over the store ls
Construct(ls) ==
    LET s == [localStorage |-> ls]
    IN  /\ localStorage = ls
        /\ authStatusSubject = hasToken(s)
        /\ currentUserSubject = getStoredUser(s)
        /\ constructed = [auth |-> hasToken(s), user |-> getStoredUser(s),
                          after |-> [name |-> "construct", res |-> Null]]

Init ==
    /\ Construct([k \in Keys |-> Null])
    /\ authSubs = {}
    /\ userSubs = {}
    /\ authSeen = NotSeen(FALSE)
    /\ userSeen = NotSeen(Null)
    /\ requests = [i \in 1..MaxReq |-> "idle"]
    /\ outcome = NoOutcome
    /\ lastOp = [name |-> "construct", res |-> Null]
    /\ crossed = NoCrossing

\* ---------------------------------------------------------------- actions
\* register(user) subscribed: the POST is issued
Register(i) ==
    /\ requests[i] = "idle"
    /\ IF i = 1 THEN TRUE ELSE requests[i - 1] /= "idle"
    /\ requests' = [requests EXCEPT ![i] = "register"]
    /\ UNCHANGED <<localStorage, authStatusSubject, currentUserSubject, authSubs,
                   userSubs, authSeen, userSeen, outcome, lastOp, constructed, crossed>>

\* login(email, password) subscribed: the POST is issued
Login(i) ==
    /\ requests[i] = "idle"
    /\ IF i = 1 THEN TRUE ELSE requests[i - 1] /= "idle"
    /\ requests' = [requests EXCEPT ![i] = "login"]
    /\ UNCHANGED <<localStorage, authStatusSubject, currentUserSubject, authSubs,
                   userSubs, authSeen, userSeen, outcome, lastOp, constructed, crossed>>

\* variant: a response that a later-issued request's response has overtaken
\* is handed to the caller but not saved (the latest issued request wins)
RespondOk_latestIssuedWins(i, res) ==
    /\ requests[i] /= "idle"
    /\ outcome' = [kind |-> "next", res |-> Some(res), error |-> Null, message |-> "",
                   crossed |-> IF i \in crossed.slots THEN crossed.by ELSE "none"]
    /\ requests' = Completed(i)
    /\ IF i \in crossed.slots /\ crossed.by = "response"
       THEN /\ crossed' = Crossing(crossed.by, Shifted(crossed.slots, i))
            /\ UNCHANGED <<localStorage, authStatusSubject, currentUserSubject, authSubs,
                           userSubs, authSeen, userSeen, lastOp, constructed>>
       ELSE /\ Install(saveSession(Begin("saveSession", Some(res)), res))
            /\ constructed' = Replaced
            /\ crossed' = Crossing("response", 1..(i - 1))

\* variant: logout() cancels the requests in flight, so that their responses
\* are not saved
RespondOk_cancelledByLogout(i, res) ==
    /\ requests[i] /= "idle"
    /\ requests' = Completed(i)
    /\ IF i \in crossed.slots /\ crossed.by = "logout"
       THEN /\ crossed' = Crossing(crossed.by, Shifted(crossed.slots, i))
            /\ outcome' = [kind |-> "next", res |-> Some(res), error |-> Null,
                           message |-> "", crossed |-> "logout"]
            /\ UNCHANGED <<localStorage, authStatusSubject, currentUserSubject, authSubs,
                           userSubs, authSeen, userSeen, lastOp, constructed>>
       ELSE /\ Install(saveSession(Begin("saveSession", Some(res)), res))
            /\ outcome' = [kind |-> "next", res |-> Some(res), error |-> Null,
                           message |-> "",
                           crossed |-> IF i \in crossed.slots THEN crossed.by ELSE "none"]
            /\ constructed' = Replaced
            /\ crossed' = Crossing("response", 1..(i - 1))

\* the response arrives: tap(res => this.saveSession(res)), then the caller's next
RespondOk(i, res) ==
    /\ requests[i] /= "idle"
    /\ Install(saveSession(Begin("saveSession", Some(res)), res))
    /\ outcome' = [kind |-> "next", res |-> Some(res), error |-> Null, message |-> "",
                   crossed |-> IF i \in crossed.slots THEN crossed.by ELSE "none"]
    /\ requests' = Completed(i)
    /\ constructed' = Replaced
    /\ crossed' = Crossing("response", 1..(i - 1))

\* variant: a failed request also ends the session
RespondError_clearsSession(i, error) ==
    /\ requests[i] /= "idle"
    /\ outcome' = [kind |-> "error", res |-> Null, error |-> Some(error),
                   message |-> handleError(error), crossed |-> "none"]
    /\ requests' = Completed(i)
    /\ Install(logout(Begin("logout", Null)))
    /\ constructed' = Replaced
    /\ crossed' = Crossing("logout", InFlight \ {i})

\* the request fails: catchError(this.handleError), then the caller's error
RespondError(i, error) ==
    /\ requests[i] /= "idle"
    /\ outcome' = [kind |-> "error", res |-> Null, error |-> Some(error),
                   message |-> handleError(error), crossed |-> "none"]
    /\ requests' = Completed(i)
    /\ crossed' = Crossing(crossed.by, Shifted(crossed.slots, i))
    /\ UNCHANGED <<localStorage, authStatusSubject, currentUserSubject, authSubs,
                   userSubs, authSeen, userSeen, lastOp, constructed>>

\* saveSession(response) called directly (it is public)
SaveSession(res) ==
    /\ Install(saveSession(Begin("saveSession", Some(res)), res))
    /\ constructed' = Replaced
    /\ crossed' = NoCrossing
    /\ UNCHANGED <<requests, outcome>>

Logout ==
    /\ Install(logout(Begin("logout", Null)))
    /\ constructed' = Replaced
    /\ crossed' = Crossing("logout", InFlight)
    /\ UNCHANGED <<requests, outcome>>

\* authStatus$.subscribe(...): a BehaviorSubject replays its value at once
SubscribeAuth(c) ==
    /\ c \notin authSubs
    /\ authSubs' = authSubs \cup {c}
    /\ authSeen' = Snapshot(Svc, authStatusSubject, "subscribe")
    /\ userSeen' = NotSeen(Null)
    /\ UNCHANGED <<localStorage, authStatusSubject, currentUserSubject, userSubs,
                   requests, outcome, lastOp, constructed, crossed>>

\* user$.subscribe(...)
SubscribeUser(c) ==
    /\ c \notin userSubs
    /\ userSubs' = userSubs \cup {c}
    /\ userSeen' = Snapshot(Svc, currentUserSubject, "subscribe")
    /\ authSeen' = NotSeen(FALSE)
    /\ UNCHANGED <<localStorage, authStatusSubject, currentUserSubject, authSubs,
                   requests, outcome, lastOp, constructed, crossed>>

UnsubscribeAuth(c) ==
    /\ c \in authSubs
    /\ authSubs' = authSubs \ {c}
    /\ UNCHANGED <<localStorage, authStatusSubject, currentUserSubject, userSubs,
                   authSeen, userSeen, requests, outcome, lastOp, constructed, crossed>>

UnsubscribeUser(c) ==
    /\ c \in userSubs
    /\ userSubs' = userSubs \ {c}
    /\ UNCHANGED <<localStorage, authStatusSubject, currentUserSubject, authSubs,
                   authSeen, userSeen, requests, outcome, lastOp, constructed, crossed>>

\* the page is loaded again: a new AuthService is constructed over the store
\* the previous instance left; its requests and subscribers are gone
ColdStart ==
    LET s == [localStorage |-> localStorage]
    IN  /\ authStatusSubject' = hasToken(s)
        /\ currentUserSubject' = getStoredUser(s)
        /\ constructed' = [auth |-> hasToken(s), user |-> getStoredUser(s),
                           after |-> IF lastOp.name = "construct"
                                     THEN constructed.after ELSE lastOp]
        /\ authSubs' = {}
        /\ userSubs' = {}
        /\ authSeen' = NotSeen(FALSE)
        /\ userSeen' = NotSeen(Null)
        /\ requests' = [i \in 1..MaxReq |-> "idle"]
        /\ outcome' = NoOutcome
        /\ lastOp' = [name |-> "construct", res |-> Null]
        /\ crossed' = NoCrossing
        /\ UNCHANGED localStorage

Next ==
    \/ \E i \in 1..MaxReq : Register(i)
    \/ \E i \in 1..MaxReq : Login(i)
    \/ \E i \in 1..MaxReq, res \in AuthResponse : RespondOk(i, res)
    \/ \E i \in 1..MaxReq, error \in FailureSample : RespondError(i, error)
    \/ \E res \in AuthResponse : SaveSession(res)
    \/ Logout
    \/ \E c \in Subscribers : SubscribeAuth(c)
    \/ \E c \in Subscribers : SubscribeUser(c)
    \/ \E c \in Subscribers : UnsubscribeAuth(c)
    \/ \E c \in Subscribers : UnsubscribeUser(c)
    \/ ColdStart

Spec == Init /\ [][Next]_vars

\* The failure path alone, driven with every failure of HttpError.
NextErr ==
    \/ \E i \in 1..MaxReq : Register(i)
    \/ \E i \in 1..MaxReq : Login(i)
    \/ \E i \in 1..MaxReq, error \in HttpError : RespondError(i, error)

SpecErr == Init /\ [][NextErr]_vars

TypeOK ==
    /\ localStorage \in [Keys -> {Null} \cup {Some(t) : t \in Tokens}
                                 \cup {Some(JSONstringify(u)) : u \in User}]
    /\ authStatusSubject \in BOOLEAN
    /\ currentUserSubject \in {Null} \cup {Some(u) : u \in User}
    /\ requests \in [1..MaxReq -> {"idle", "login", "register"}]

\* ------------------------------------------------------------------ claims
Issued == lastOp.res[1]
FromRequest == outcome.kind = "next" /\ outcome.res = lastOp.res

\* C1: after a login/register succeeded with {token, user}, and until the
\* next saveSession or logout, getToken() is that token and getUser() is
\* that user.
C1_IssuedSessionIsReadable ==
    lastOp.name = "saveSession" =>
        /\ getToken(Svc) = Some(Issued.token)
        /\ getUser(Svc) = Some(Issued.user)

C1_Witness ==
    /\ lastOp.name = "saveSession"
    /\ FromRequest
    /\ getToken(Svc) = Some("t1")
    /\ getUser(Svc) /= Null

\* C2: after logout(), whatever came before, getToken() and getUser() are
\* null and the latest value of the authenticated stream is false.
C2_LogoutClearsSession ==
    lastOp.name = "logout" =>
        /\ getToken(Svc) = Null
        /\ getUser(Svc) = Null
        /\ authStatusSubject = FALSE

\* a logout that ended a session: its authStatus$ subscriber still saw the user
C2_Witness ==
    /\ lastOp.name = "logout"
    /\ authSeen.cause = "next"
    /\ authSeen.user /= Null
    /\ getUser(Svc) = Null

\* C3: isAuthenticated() is true right after any successful login or
\* register, whatever token was issued, and false right after logout().
C3_AuthenticatedAfterLogin ==
    /\ (lastOp.name = "saveSession" /\ FromRequest) => isAuthenticated(Svc)
    /\ lastOp.name = "logout" => ~isAuthenticated(Svc)

\* C4: the store holds the 'auth-token' key exactly when it holds the
\* 'user' key.
C4_TokenAndUserTogether ==
    (localStorage["auth-token"] /= Null) <=> (localStorage["user"] /= Null)

C4_Witness ==
    /\ localStorage["auth-token"] = Some("")
    /\ localStorage["user"] /= Null

\* what the store holds once the operation op has written it
StoreAfter(op) ==
    IF op.name = "saveSession"
    THEN [token |-> Some(op.res[1].token), user |-> Some(JSONstringify(op.res[1].user))]
    ELSE [token |-> Null, user |-> Null]

WrittenBefore(seen) ==
    seen.cause = "next" =>
        /\ seen.token = StoreAfter(seen.op).token
        /\ seen.storedUser = StoreAfter(seen.op).user

\* C5: a subscriber notified of a value emitted by saveSession finds the
\* operation's token and user already in the store; one notified by logout
\* finds both keys already gone.  On both streams.
C5_NoBroadcastBeforeWrite ==
    /\ WrittenBefore(authSeen)
    /\ WrittenBefore(userSeen)

C5_Witness ==
    /\ authSeen.cause = "next"
    /\ userSeen.cause = "next"
    /\ authSeen.op.name = "saveSession"
    /\ authSeen.token = Some("t1")

\* the value last broadcast on each stream, by the operation op
BroadcastBy(op) ==
    IF op.name = "saveSession" THEN [auth |-> TRUE, user |-> Some(op.res[1].user)]
    ELSE IF op.name = "logout" THEN [auth |-> FALSE, user |-> Null]
    ELSE constructed

\* C6: a new subscriber of user$ (or authStatus$) receives at once the
\* value last broadcast on it: the saved user after a login/register, null
\* after a logout, the initial value before any broadcast.
C6_ReplayOnSubscribe ==
    /\ userSeen.cause = "subscribe" => userSeen.value = BroadcastBy(userSeen.op).user
    /\ authSeen.cause = "subscribe" => authSeen.value = BroadcastBy(authSeen.op).auth

\* subscribed to user$ after a logout that followed a login
C6_Witness ==
    /\ userSeen.cause = "subscribe"
    /\ userSeen.op.name = "logout"
    /\ outcome.kind = "next"

Failure == outcome.error[1]

\* C7 as stated: a failure that carries error.msg is propagated with
\* exactly that message, whatever else it carries.
C7_MessageFieldWins ==
    (outcome.kind = "error" /\ Failure.msg /= Null) =>
        outcome.message = Failure.msg[1]

\* C7 amended: a failure that carries a non-empty error.msg is propagated
\* with exactly that message, also when it carries a field-error array or
\* status 0.
C7_NonEmptyMessageFieldWins ==
    (outcome.kind = "error" /\ Failure.msg /= Null /\ Failure.msg[1] /= "") =>
        outcome.message = Failure.msg[1]

C7_Witness ==
    /\ outcome.kind = "error"
    /\ Failure.msg = Some("Email taken")
    /\ Failure.errors.kind = "array"
    /\ Failure.errors.items /= <<>>
    /\ Failure.status = 0
    /\ outcome.message = "Email taken"

\* the messages of the first n field errors, in order, separated by ", "
RECURSIVE Listed(_, _)
Listed(items, n) ==
    IF n = 0 THEN ""
    ELSE IF n = 1 THEN items[1].msg[1]
    ELSE Listed(items, n - 1) \o ", " \o items[n].msg[1]

\* C8: a failure without error.msg but with an array of field errors is
\* propagated with their messages joined in array order with ", ".
C8_FieldErrorsJoined ==
    (/\ outcome.kind = "error"
     /\ Failure.msg = Null
     /\ Failure.errors.kind = "array"
     /\ \A k \in 1..Len(Failure.errors.items) : Failure.errors.items[k].msg /= Null) =>
        outcome.message = Listed(Failure.errors.items, Len(Failure.errors.items))

C8_Witness ==
    /\ outcome.kind = "error"
    /\ Failure.msg = Null
    /\ Failure.errors.kind = "array"
    /\ Failure.errors.items = <<[msg |-> Some("A")], [msg |-> Some("B")]>>
    /\ outcome.message = "A, B"

\* C9: a failure with neither error.msg nor a field-error array is
\* propagated with the connectivity message when its status is 0 and with
\* the generic message otherwise.
C9_ConnectivityOrGeneric ==
    (outcome.kind = "error" /\ Failure.msg = Null /\ Failure.errors.kind /= "array") =>
        outcome.message = IF Failure.status = 0 THEN ConnectMessage ELSE DefaultMessage

C9_Witness ==
    /\ outcome.kind = "error"
    /\ Failure.msg = Null
    /\ Failure.errors.kind = "absent"
    /\ Failure.status = 0
    /\ outcome.message = ConnectMessage

\* C10: getUserRole() is the current user's role whenever there is a
\* current user, whatever the role, and null exactly when there is none.
C10_RoleOfCurrentUser ==
    getUserRole(Svc) =
        IF getUser(Svc) = Null THEN Null ELSE Some(getUser(Svc)[1].role)

\* C11: a service constructed over a store in which the previous instance
\* last did saveSession({token, user}) starts authenticated with that user;
\* constructed over an empty store, or one where logout came last, it
\* starts not authenticated and without a user.
C11_ColdStartRestoresSession ==
    /\ constructed.after.name = "saveSession" =>
        /\ constructed.auth = TRUE
        /\ constructed.user = Some(constructed.after.res[1].user)
    /\ constructed.after.name /= "saveSession" =>
        /\ constructed.auth = FALSE
        /\ constructed.user = Null

\* the part of C11 that the code does keep: the user survives the round
\* trip through JSON.stringify and JSON.parse
C11_UserRoundTrip ==
    /\ constructed.after.name = "saveSession" =>
        constructed.user = Some(constructed.after.res[1].user)
    /\ constructed.after.name /= "saveSession" =>
        constructed.auth = FALSE /\ constructed.user = Null

\* a step in which a request completes and its caller receives a response
ResponseArrives ==
    /\ Cardinality(InFlight') < Cardinality(InFlight)
    /\ outcome'.kind = "next"

\* the session and both streams are those of the response the caller received last
AppliedLast ==
    LET r == outcome.res[1]
    IN  /\ localStorage["auth-token"] = Some(r.token)
        /\ localStorage["user"] = Some(JSONstringify(r.user))
        /\ authStatusSubject = TRUE
        /\ currentUserSubject = Some(r.user)
        /\ authSubs /= {} =>
            authSeen.cause = "next" /\ authSeen.value = TRUE /\ authSeen.op.res = outcome.res
        /\ userSubs /= {} =>
            userSeen.cause = "next" /\ userSeen.value = Some(r.user)

\* C12: with several requests in flight, each response is applied when it
\* arrives, whatever the order of issue: at every arrival both streams
\* deliver that response's values and the stored token, stored user and
\* stream values become its own, so after the last arrival they are those
\* of the response that completed last.
C12_AppliedInCompletionOrder == [][ResponseArrives => AppliedLast']_vars

\* no request is left in flight, and the response applied last is that of a
\* request which the response of a later-issued request had overtaken
C12_Witness ==
    /\ InFlight = {}
    /\ outcome.kind = "next"
    /\ outcome.crossed = "response"
    /\ lastOp.res = outcome.res
    /\ getToken(Svc) = Some(outcome.res[1].token)
    /\ userSeen.cause = "next"
    /\ userSeen.value = Some(outcome.res[1].user)

\* C13: logout() does not cancel a request in flight: when the response of
\* a request issued before the logout arrives after it, the session that
\* the logout had cleared is set up again, authenticated with the issued
\* token and user.
C13_LogoutDoesNotCancel ==
    [][(ResponseArrives /\ outcome'.crossed = "logout") =>
          /\ getToken(Svc) = Null
          /\ getUser(Svc) = Null
          /\ authStatusSubject = FALSE
          /\ authStatusSubject' = TRUE
          /\ localStorage'["auth-token"] = Some(outcome'.res[1].token)
          /\ localStorage'["user"] = Some(JSONstringify(outcome'.res[1].user))
          /\ currentUserSubject' = Some(outcome'.res[1].user)]_vars

C13_Witness ==
    /\ outcome.kind = "next"
    /\ outcome.crossed = "logout"
    /\ lastOp = [name |-> "saveSession", res |-> outcome.res]
    /\ authStatusSubject = TRUE
    /\ getToken(Svc) = Some("t1")
    /\ getUser(Svc) = Some(outcome.res[1].user)

\* C14: between operations the three views of the login state agree: the
\* latest value of the authenticated stream, isAuthenticated(), and
\* whether getUser() is not null.
C14_ViewsAgree ==
    /\ authStatusSubject = isAuthenticated(Svc)
    /\ isAuthenticated(Svc) = (getUser(Svc) /= Null)

\* a step in which a request completes and its caller receives a failure
RequestFails ==
    /\ Cardinality(InFlight') < Cardinality(InFlight)
    /\ outcome'.kind = "error"

\* C15: a failed register or login leaves the stored token, the stored
\* user and both streams' values as they were and delivers nothing on
\* either stream; the request is not issued again, and the caller receives
\* one failure that carries the chosen message and no response.
C15_FailureChangesNothing ==
    [][RequestFails =>
          /\ UNCHANGED <<localStorage, authStatusSubject, currentUserSubject,
                         authSeen, userSeen>>
          /\ Cardinality(InFlight') = Cardinality(InFlight) - 1
          /\ outcome'.res = Null
          /\ outcome'.message = handleError(outcome'.error[1])]_vars

\* a request failed while a session was open, and the session is still there
C15_Witness ==
    /\ outcome.kind = "error"
    /\ outcome.message = ConnectMessage
    /\ lastOp.name = "saveSession"
    /\ authStatusSubject = TRUE
    /\ getToken(Svc) = Some("t1")
    /\ getUser(Svc) /= Null
    /\ userSeen.cause = "next"

\* a step in which saveSession or logout runs: for a response that arrives,
\* or called directly (no request is issued or completed, nobody subscribes
\* or unsubscribes, and no new service is constructed)
SessionOperation ==
    \/ ResponseArrives
    \/ /\ requests' = requests
       /\ authSubs' = authSubs
       /\ userSubs' = userSubs
       /\ lastOp'.name /= "construct"

\* C16: within every saveSession and every logout the authenticated stream
\* is notified before the user stream: getUser() called during the
\* authenticated stream's notification still returns the user from before
\* the operation, and the new user is what getUser() returns once the user
\* stream is notified.
C16_AuthNotifiedBeforeUser ==
    [][SessionOperation =>
          /\ authSubs /= {} =>
                authSeen'.cause = "next" /\ authSeen'.user = currentUserSubject
          /\ userSubs /= {} =>
                /\ userSeen'.cause = "next"
                /\ userSeen'.user = currentUserSubject'
                /\ userSeen'.value = currentUserSubject']_vars

\* a first saveSession: no user yet while authStatus$ is notified, the saved
\* user once user$ is
C16_Witness ==
    /\ lastOp.name = "saveSession"
    /\ authSeen.cause = "next"
    /\ authSeen.user = Null
    /\ userSeen.cause = "next"
    /\ userSeen.user = Some(lastOp.res[1].user)
====
